---- MODULE Spec2Model ----
(***************************************************************************)
(* Security posture detection of resources/utilities.py: csr_dump,         *)
(* csr_decode, amfi_status, check_filevault_skip, patching_status,         *)
(* check_recovery, get_nvram and get_rom, as a state machine over the      *)
(* module's globals (RECOVERY_STATUS, sip_data's csr_values) and the       *)
(* environment the functions read (firmware variables, filesystem paths,   *)
(* the csr system call, the fdesetup tool).                                *)
(*                                                                         *)
(* Python values None / True / False are the strings "None", "True",      *)
(* "False".  A firmware value is a record [kind, data]: kind "none"       *)
(* (absent), "str" or "bytes"; data is a sequence of tokens, each token    *)
(* standing for a run of characters/bytes (a marker such as "-allow_fv",  *)
(* a NUL byte, or a byte that is not valid UTF-8).                         *)
(***************************************************************************)
EXTENDS Integers, Sequences, FiniteSets, TLC

VARIABLES
    csr_values,       \* sip_data.system_integrity_protection.csr_values
    RECOVERY_STATUS,  \* the module global of check_recovery
    baseSystem,       \* whether /System/Library/BaseSystem exists
    csr_available,    \* whether libSystem has csr_get_active_config
    probes,           \* Path(...).exists() evaluations made by check_recovery
    firstReturn,      \* what the first check_recovery call returned
    call,             \* the last direct call: its arguments, reads and outcome
    pc,               \* position of the running patching_status call
    ps,               \* patching_status's arguments and locals
    step,             \* the check patching_status ran last: reads and outcome
    open_handles,     \* registry entries obtained and not yet released
    tpc,              \* each thread's position in check_recovery
    tprobe,           \* each thread's Path(...).exists() result, not yet stored
    tret              \* what each thread's last check_recovery call returned

vars == <<csr_values, RECOVERY_STATUS, baseSystem, csr_available, probes,
          firstReturn, call, pc, ps, step, open_handles, tpc, tprobe, tret>>

\* ------------------------------------------------------------------ bounds

\* Number of entries of the csr_values table that the model keeps.
NumFlags == 2

\* Filesystem probes by check_recovery that the model follows.
MaxProbes == 2

\* Registry entries left open that the model follows.
MaxHandles == 2

\* Threads calling check_recovery at the same time.
NumThreads == 2

Threads == 1 .. NumThreads

\* ------------------------------------------------------------ Python values

PyNone == "None"

Py(b) == IF b THEN "True" ELSE "False"

\* ----------------------------------------------------- os_data (not in src/)

yosemite == 14

catalina == 19

\* The ladder of releases handed to patching_status: the two thresholds and
\* the release right after each.
OSVersions == {yosemite, yosemite + 1, catalina, catalina + 1}

\* ------------------------------------------------- sip_data (not in src/)

\* Table positions of csr_values, in enumeration order.
Flags == 0 .. (NumFlags - 1)

\* csr_values as the module is imported: every flag False.
CsrInitial == [f \in Flags |-> FALSE]

\* ------------------------------------------------------------- csr_dump

RECURSIVE Pow2(_)
Pow2(n) == IF n = 0 THEN 1 ELSE 2 * Pow2(n - 1)

\* Raw masks the system call can hand back: every combination of the table's
\* bits and of one bit beyond the table.
Masks == 0 .. (Pow2(NumFlags + 1) - 1)

\* sip_int & (1 << i)
BitSet(sip_int, i) == (sip_int \div Pow2(i)) % 2 = 1

\* csr_dump with every bit set where libSystem lacks csr_get_active_config.
csr_dump_all_set(available, raw) == IF available THEN raw ELSE Pow2(NumFlags) - 1

\* csr_dump: the mask of csr_get_active_config, 0 when libSystem lacks it
\* (AttributeError).
csr_dump(available, raw) == IF available THEN raw ELSE 0

\* ------------------------------------------------------------- csr_decode

\* The loop of csr_decode on a table rebuilt from the mask alone.
csr_set_flags_fresh(cv, sip_int) == [f \in Flags |-> BitSet(sip_int, f)]

\* The loop of csr_decode: flags of set bits become True, others keep
\* the value they had.
csr_set_flags(cv, sip_int) == [f \in Flags |-> IF BitSet(sip_int, f) THEN TRUE ELSE cv[f]]

sip_needs_change(cv, os_sip) == \A f \in os_sip : cv[f]

\* csr_decode's return value, given the table after the loop.
csr_decode_ret(cv, os_sip) == IF sip_needs_change(cv, os_sip) THEN "False" ELSE "True"

\* ------------------------------------------------------- firmware values

None == [kind |-> "none", data |-> <<>>]

Str(d) == [kind |-> "str", data |-> d]

Bytes(d) == [kind |-> "bytes", data |-> d]

\* A NUL byte, and a byte that no UTF-8 text contains.
NUL == "\\0"

BAD == "\\xff"

\* Markers searched by amfi_status and check_filevault_skip.
allow_amfi == "-allow_amfi"

allow_fv == "-allow_fv"

amfi_1 == "amfi_get_out_of_my_way=0x1"

amfi_2 == "amfi_get_out_of_my_way=1"

\* What the store can hold under OCLP-Settings.
SettingsValues ==
    { None,
      Str(<<allow_amfi>>), Str(<<allow_fv>>), Str(<<"-v">>),
      Bytes(<<>>), Bytes(<<allow_amfi, NUL>>), Bytes(<<allow_fv, NUL>>),
      Bytes(<<BAD>>) }

\* What the store can hold under boot-args.
BootArgsValues ==
    { None,
      Str(<<"-v">>), Str(<<amfi_1>>), Str(<<"-v", amfi_2>>),
      Bytes(<<>>), Bytes(<<amfi_1, NUL>>) }

\* What the store can hold under HardwareModel.
HardwareModelValues ==
    { None, Str(<<"j137">>), Str(<<"x86legacy">>), Bytes(<<"j137", NUL>>) }

\* constants.Constants().sbm_values (not in src/): a list of model strings.
sbm_values == { Str(<<"j137">>), Str(<<"j680">>) }

StoreValues == SettingsValues \cup BootArgsValues \cup HardwareModelValues

\* bool(value) of a native value.
Truthy(v) == v.kind # "none" /\ Len(v.data) > 0

\* "marker in value" for a str value.
Contains(v, marker) == \E i \in 1 .. Len(v.data) : v.data[i] = marker

RECURSIVE LStrip(_)
LStrip(d) == IF d # <<>> /\ Head(d) = NUL THEN LStrip(Tail(d)) ELSE d

RECURSIVE RStrip(_)
RStrip(d) == IF d # <<>> /\ d[Len(d)] = NUL THEN RStrip(SubSeq(d, 1, Len(d) - 1)) ELSE d

\* bytes.strip(b"\0")
StripNul(d) == RStrip(LStrip(d))

\* bytes.decode(): defined on byte strings that are UTF-8.
ValidUtf8(d) == \A i \in 1 .. Len(d) : d[i] # BAD

\* The outcome of a call: the exception it raised ("none" when it returned)
\* and the value it returned.
Returned(v) == [exc |-> "none", val |-> v]

Raised(e) == [exc |-> e, val |-> PyNone]

\* get_nvram after the registry lookup: stored is what
\* IORegistryEntryCreateCFProperty found under uuid:variable (None: a null
\* reference).
get_nvram(stored, decode) ==
    IF stored.kind = "none" THEN Returned(None)
    ELSE IF decode /\ stored.kind = "bytes"
         THEN IF ValidUtf8(StripNul(stored.data))
              THEN Returned(Str(StripNul(stored.data)))
              ELSE Raised("UnicodeDecodeError")
         ELSE Returned(stored)

\* get_rom after the registry lookup under IODeviceTree:/rom.
get_rom(stored, decode) ==
    IF stored.kind = "none" THEN Returned(None)
    ELSE IF decode /\ stored.kind = "bytes"
         THEN IF ValidUtf8(StripNul(stored.data))
              THEN Returned(Str(StripNul(stored.data)))
              ELSE Raised("UnicodeDecodeError")
         ELSE Returned(stored)

\* resources/ioreg.py (not in src/): how IORegistryEntryCreateCFProperty
\* ends, by handing back a reference (null included) or by an error raised
\* in the binding.
LookupOutcomes == {"returns", "raises"}

\* Lines 287-291 and 306-310: the entry is obtained, the property looked up,
\* the entry released; an error raised by the lookup leaves the function
\* before IOObjectRelease.
handles_after_read(open, lookup) ==
    LET obtained == open + 1
    IN  IF lookup = "raises" THEN obtained ELSE obtained - 1

\* Python's "marker in v" with a str marker: TypeError on None and on bytes.
PyIn(marker, v) ==
    IF v.kind = "str" THEN Returned(Py(Contains(v, marker))) ELSE Raised("TypeError")

\* ------------------------------------------------------------ amfi_status

\* s1, s2: OCLP-Settings at the reads of lines 143 and 144; b1, b2, b3:
\* boot-args at the read of line 148 and the two reads of line 149.
amfi_status(s1, s2, b1, b2, b3) ==
    IF Truthy(get_nvram(s1, FALSE).val)
    THEN LET r == get_nvram(s2, TRUE)
         IN  IF r.exc # "none" THEN Raised(r.exc)
             ELSE LET m == PyIn(allow_amfi, r.val)
                  IN  IF m.exc # "none" THEN Raised(m.exc)
                      ELSE IF m.val = "True" THEN Returned("False")
                      ELSE Returned("True")
    ELSE IF Truthy(get_nvram(b1, FALSE).val)
    THEN LET m1 == PyIn(amfi_1, get_nvram(b2, FALSE).val)
         IN  IF m1.exc # "none" THEN Raised(m1.exc)
             ELSE IF m1.val = "True" THEN Returned("False")
             ELSE LET m2 == PyIn(amfi_2, get_nvram(b3, FALSE).val)
                  IN  IF m2.exc # "none" THEN Raised(m2.exc)
                      ELSE IF m2.val = "True" THEN Returned("False")
                      ELSE Returned(PyNone)
    ELSE Returned("True")

\* The reads amfi_status performs, in order: the others never happen.
amfi_reads(s1, s2, b1, b2, b3) ==
    IF Truthy(s1) THEN <<s1, s2>>
    ELSE IF ~Truthy(b1) THEN <<s1, b1>>
    ELSE IF PyIn(amfi_1, b2) = Returned("False") THEN <<s1, b1, b2, b3>>
    ELSE <<s1, b1, b2>>

\* ---------------------------------------------------- check_filevault_skip

\* s1, s2: OCLP-Settings at the two reads of line 203.
check_filevault_skip(s1, s2) ==
    IF Truthy(get_nvram(s1, FALSE).val)
    THEN LET r == get_nvram(s2, TRUE)
         IN  IF r.exc # "none" THEN Raised(r.exc)
             ELSE LET m == PyIn(allow_fv, r.val)
                  IN  IF m.exc # "none" THEN Raised(m.exc)
                      ELSE Returned(m.val)
    ELSE Returned("False")

filevault_reads(s1, s2) == IF Truthy(s1) THEN <<s1, s2>> ELSE <<s1>>

\* ------------------------------------------------------------ check_recovery

\* Mutation of recovery_status_after: the path is probed on every call.
recovery_status_uncached(status, exists) == Py(exists)

\* RECOVERY_STATUS after the test and assignment of lines 75-76.
recovery_status_after(status, exists) == IF status = PyNone THEN Py(exists) ELSE status

\* Line 75: whether the call evaluates Path(...).exists().
recovery_probes(status) == status = PyNone

\* -------------------------------------------------- patching_status checks

\* Line 220: whether patching_status calls amfi_status.
ps_amfi_applies(os) == os > catalina

\* Lines 220-224.
ps_amfi(os, s1, s2, b1, b2, b3) ==
    IF ps_amfi_applies(os) THEN amfi_status(s1, s2, b1, b2, b3) ELSE Returned("False")

\* Mutation of ps_sbm: the else branch of line 229 is missing.
ps_sbm_no_else(h1, h2) ==
    IF Truthy(get_nvram(h1, FALSE).val)
    THEN IF get_nvram(h2, FALSE).val \notin sbm_values THEN "False" ELSE "True"
    ELSE "True"

\* Lines 226-230; h1, h2: HardwareModel at the two reads.
ps_sbm(h1, h2) ==
    IF Truthy(get_nvram(h1, FALSE).val)
    THEN IF get_nvram(h2, FALSE).val \notin sbm_values THEN "False" ELSE "True"
    ELSE "False"

sbm_reads(h1, h2) == IF Truthy(h1) THEN <<h1, h2>> ELSE <<h1>>

\* Mutation of ps_sip_applies: >= for >.
ps_sip_applies_inclusive(os) == os >= yosemite

\* Line 232: whether patching_status calls csr_decode.
ps_sip_applies(os) == os > yosemite

\* Line 237, left operand: whether check_filevault_skip is consulted.
ps_fv_applies(os) == os > catalina

\* What "fdesetup status" can print: off, on, or an error message.
FileVaultOff == "FileVault is Off"

FdesetupOutputs ==
    { Str(<<FileVaultOff, ".">>), Str(<<"FileVault is On", ".">>),
      Str(<<"fdesetup: error">>) }

\* Lines 239-241, given the text fdesetup printed.
ps_fv_of_output(out) == IF Contains(out, FileVaultOff) THEN "False" ELSE "True"

\* Mutation of ps_dosdude: or for and.
ps_dosdude_either(gen6, gen7) == IF ~(gen6 \/ gen7) THEN "False" ELSE "True"

\* Lines 245-246; gen6, gen7: whether each kext path exists.
ps_dosdude(gen6, gen7) == IF ~(gen6 /\ gen7) THEN "False" ELSE "True"

\* ------------------------------------------------------------------- Init

NoCall == [op |-> "none"]

NoStep == [check |-> "none"]

NoLocals == [os |-> 0, os_sip |-> {}]

Init ==
    /\ csr_values = CsrInitial
    /\ RECOVERY_STATUS = PyNone
    /\ baseSystem \in BOOLEAN
    /\ csr_available \in BOOLEAN
    /\ probes = 0
    /\ firstReturn = PyNone
    /\ call = NoCall
    /\ pc = "idle"
    /\ ps = NoLocals
    /\ step = NoStep
    /\ open_handles = 0
    /\ tpc = [t \in Threads |-> "idle"]
    /\ tprobe = [t \in Threads |-> PyNone]
    /\ tret = [t \in Threads |-> PyNone]

\* The threads of the concurrent check_recovery calls do not move.
ThreadsUnchanged == UNCHANGED <<tpc, tprobe, tret>>

\* ------------------------------------------ csr_decode and check_recovery

\* csr_decode(os_sip); raw is what csr_get_active_config writes, where
\* libSystem has it.
CsrDecode ==
    \E os_sip \in SUBSET Flags, raw \in Masks :
        LET sip_int == csr_dump(csr_available, raw)
            cv == csr_set_flags(csr_values, sip_int)
        IN  /\ ~csr_available => raw = 0
            /\ csr_values' = cv
            /\ call' = [op |-> "csr_decode", os_sip |-> os_sip,
                        sip_int |-> sip_int, ret |-> csr_decode_ret(cv, os_sip)]
            /\ UNCHANGED <<RECOVERY_STATUS, baseSystem, csr_available, probes,
                           firstReturn, pc, ps, step, open_handles>>
            /\ ThreadsUnchanged

\* check_recovery().
CheckRecovery ==
    /\ probes < MaxProbes
    /\ LET probed == recovery_probes(RECOVERY_STATUS)
           status == recovery_status_after(RECOVERY_STATUS, baseSystem)
       IN  /\ RECOVERY_STATUS' = status
           /\ probes' = IF probed THEN probes + 1 ELSE probes
           /\ firstReturn' = IF firstReturn = PyNone THEN status ELSE firstReturn
           /\ call' = [op |-> "check_recovery", probed |-> probed, ret |-> status]
    /\ UNCHANGED <<csr_values, baseSystem, csr_available, pc, ps, step,
                   open_handles>>
    /\ ThreadsUnchanged

\* The environment creates or deletes /System/Library/BaseSystem.
ToggleBaseSystem ==
    /\ baseSystem' = ~baseSystem
    /\ UNCHANGED <<csr_values, RECOVERY_STATUS, csr_available, probes,
                   firstReturn, call, pc, ps, step, open_handles>>
    /\ ThreadsUnchanged

Next ==
    \/ CsrDecode
    \/ CheckRecovery
    \/ ToggleBaseSystem

Spec == Init /\ [][Next]_vars

\* ------------------------------------------------- firmware-variable calls

NvramUnchanged ==
    /\ UNCHANGED <<csr_values, RECOVERY_STATUS, baseSystem, csr_available,
                   probes, firstReturn, pc, ps, step>>
    /\ ThreadsUnchanged

\* get_nvram(variable, uuid, decode=decode), the store holding stored.
GetNvram ==
    \E stored \in StoreValues, decode \in BOOLEAN, lookup \in LookupOutcomes :
        /\ lookup = "raises" => (stored = None /\ open_handles < MaxHandles)
        /\ call' = [op |-> "get_nvram", stored |-> stored, decode |-> decode,
                    lookup |-> lookup,
                    out |-> IF lookup = "raises" THEN Raised("LookupError")
                            ELSE get_nvram(stored, decode)]
        /\ open_handles' = handles_after_read(open_handles, lookup)
        /\ NvramUnchanged

\* get_rom(variable, decode=decode), the ROM node holding stored.
GetRom ==
    \E stored \in StoreValues, decode \in BOOLEAN, lookup \in LookupOutcomes :
        /\ lookup = "raises" => (stored = None /\ open_handles < MaxHandles)
        /\ call' = [op |-> "get_rom", stored |-> stored, decode |-> decode,
                    lookup |-> lookup,
                    out |-> IF lookup = "raises" THEN Raised("LookupError")
                            ELSE get_rom(stored, decode)]
        /\ open_handles' = handles_after_read(open_handles, lookup)
        /\ NvramUnchanged

\* The reads of OCLP-Settings and boot-args that one amfi_status call can
\* see, each read seeing what the store holds at that time; a read that the
\* call never reaches is None.
AmfiReads ==
    { r \in SettingsValues \X SettingsValues \X BootArgsValues
             \X BootArgsValues \X BootArgsValues :
        LET n == Len(amfi_reads(r[1], r[2], r[3], r[4], r[5]))
        IN  /\ Truthy(r[1]) => r[3] = None
            /\ ~Truthy(r[1]) => r[2] = None
            /\ n < 3 => r[4] = None
            /\ n < 4 => r[5] = None }

\* amfi_status().
AmfiStatus ==
    \E r \in AmfiReads :
        /\ call' = [op |-> "amfi_status",
                    reads |-> amfi_reads(r[1], r[2], r[3], r[4], r[5]),
                    out |-> amfi_status(r[1], r[2], r[3], r[4], r[5])]
        /\ UNCHANGED open_handles
        /\ NvramUnchanged

\* The reads of OCLP-Settings one check_filevault_skip call can see.
FilevaultReads ==
    { r \in SettingsValues \X SettingsValues : ~Truthy(r[1]) => r[2] = None }

\* check_filevault_skip().
CheckFilevaultSkip ==
    \E r \in FilevaultReads :
        /\ call' = [op |-> "check_filevault_skip",
                    reads |-> filevault_reads(r[1], r[2]),
                    out |-> check_filevault_skip(r[1], r[2])]
        /\ UNCHANGED open_handles
        /\ NvramUnchanged

NextNvram ==
    \/ GetNvram
    \/ GetRom
    \/ AmfiStatus
    \/ CheckFilevaultSkip

SpecNvram == Init /\ [][NextNvram]_vars

\* --------------------------------------------------------- patching_status

PatchUnchanged ==
    /\ UNCHANGED <<RECOVERY_STATUS, baseSystem, csr_available, probes,
                   firstReturn, call, open_handles>>
    /\ ThreadsUnchanged

\* patching_status(os_sip, os) is entered: lines 211-215.
PSCall ==
    /\ pc \in {"idle", "done", "raised"}
    /\ \E os_sip \in SUBSET Flags, os \in OSVersions :
          ps' = [os |-> os, os_sip |-> os_sip, sip_enabled |-> "True",
                 sbm_enabled |-> "True", amfi_enabled |-> "True",
                 fv_enabled |-> "True", dosdude_patched |-> "True"]
    /\ pc' = "amfi"
    /\ step' = NoStep
    /\ UNCHANGED csr_values
    /\ PatchUnchanged

\* Lines 220-224: the code-integrity check.
PSAmfi ==
    /\ pc = "amfi"
    /\ \E r \in AmfiReads :
          LET called == ps_amfi_applies(ps.os)
              out == ps_amfi(ps.os, r[1], r[2], r[3], r[4], r[5])
          IN  /\ ~called => r = <<None, None, None, None, None>>
              /\ step' = [check |-> "amfi", called |-> called,
                          reads |-> IF called
                                    THEN amfi_reads(r[1], r[2], r[3], r[4], r[5])
                                    ELSE <<>>,
                          exc |-> out.exc]
              /\ IF out.exc = "none"
                 THEN /\ ps' = [ps EXCEPT !.amfi_enabled = out.val]
                      /\ pc' = "sbm"
                 ELSE /\ ps' = ps
                      /\ pc' = "raised"
    /\ UNCHANGED csr_values
    /\ PatchUnchanged

\* Lines 226-230: the secure-boot-model check.
PSSbm ==
    /\ pc = "sbm"
    /\ \E h1, h2 \in HardwareModelValues :
          /\ ~Truthy(h1) => h2 = None
          /\ step' = [check |-> "sbm", reads |-> sbm_reads(h1, h2), exc |-> "none"]
          /\ ps' = [ps EXCEPT !.sbm_enabled = ps_sbm(h1, h2)]
    /\ pc' = "sip"
    /\ UNCHANGED csr_values
    /\ PatchUnchanged

\* Lines 232-235: the integrity-protection check.
PSSip ==
    /\ pc = "sip"
    /\ IF ps_sip_applies(ps.os)
       THEN \E raw \in Masks :
              LET sip_int == csr_dump(csr_available, raw)
                  cv == csr_set_flags(csr_values, sip_int)
              IN  /\ ~csr_available => raw = 0
                  /\ csr_values' = cv
                  /\ step' = [check |-> "sip", called |-> TRUE,
                              sip_int |-> sip_int, exc |-> "none"]
                  /\ ps' = [ps EXCEPT !.sip_enabled = csr_decode_ret(cv, ps.os_sip)]
       ELSE /\ csr_values' = csr_values
            /\ step' = [check |-> "sip", called |-> FALSE, sip_int |-> 0,
                        exc |-> "none"]
            /\ ps' = [ps EXCEPT !.sip_enabled = "False"]
    /\ pc' = "fv"
    /\ PatchUnchanged

\* Lines 237-243: the volume-encryption check.
PSFv ==
    /\ pc = "fv"
    /\ IF ps_fv_applies(ps.os)
       THEN \E r \in FilevaultReads :
              LET skip == check_filevault_skip(r[1], r[2])
                  reads == filevault_reads(r[1], r[2])
              IN  IF skip.exc # "none"
                  THEN /\ step' = [check |-> "fv", reads |-> reads, ran |-> FALSE,
                                   output |-> None, exc |-> skip.exc]
                       /\ ps' = ps
                       /\ pc' = "raised"
                  ELSE IF skip.val = "False"
                  THEN \E output \in FdesetupOutputs :
                         /\ step' = [check |-> "fv", reads |-> reads, ran |-> TRUE,
                                     output |-> output, exc |-> "none"]
                         /\ ps' = [ps EXCEPT !.fv_enabled = ps_fv_of_output(output)]
                         /\ pc' = "dosdude"
                  ELSE /\ step' = [check |-> "fv", reads |-> reads, ran |-> FALSE,
                                   output |-> None, exc |-> "none"]
                       /\ ps' = [ps EXCEPT !.fv_enabled = "False"]
                       /\ pc' = "dosdude"
       ELSE /\ step' = [check |-> "fv", reads |-> <<>>, ran |-> FALSE,
                        output |-> None, exc |-> "none"]
            /\ ps' = [ps EXCEPT !.fv_enabled = "False"]
            /\ pc' = "dosdude"
    /\ UNCHANGED csr_values
    /\ PatchUnchanged

\* Lines 245-248: the legacy-patch marker, and the return.
PSDosdude ==
    /\ pc = "dosdude"
    /\ \E gen6, gen7 \in BOOLEAN :
          /\ step' = [check |-> "dosdude", gen6 |-> gen6, gen7 |-> gen7,
                      exc |-> "none"]
          /\ ps' = [ps EXCEPT !.dosdude_patched = ps_dosdude(gen6, gen7)]
    /\ pc' = "done"
    /\ UNCHANGED csr_values
    /\ PatchUnchanged

NextPatch ==
    \/ PSCall
    \/ PSAmfi
    \/ PSSbm
    \/ PSSip
    \/ PSFv
    \/ PSDosdude

SpecPatch == Init /\ [][NextPatch]_vars

\* ------------------------------------- check_recovery called from threads

\* What a thread's step leaves alone besides its own position.
ThreadStepUnchanged ==
    UNCHANGED <<csr_values, baseSystem, csr_available, probes, firstReturn,
                call, pc, ps, step, open_handles>>

\* Line 75: the thread enters check_recovery and reads RECOVERY_STATUS for
\* the "is None" test.
ThreadTest(t) ==
    /\ tpc[t] = "idle"
    /\ tpc' = [tpc EXCEPT ![t] = IF RECOVERY_STATUS = PyNone THEN "probe"
                                 ELSE "return"]
    /\ UNCHANGED <<RECOVERY_STATUS, tprobe, tret>>
    /\ ThreadStepUnchanged

\* Line 76, right-hand side: Path("/System/Library/BaseSystem").exists().
ThreadProbe(t) ==
    /\ tpc[t] = "probe"
    /\ tprobe' = [tprobe EXCEPT ![t] = Py(baseSystem)]
    /\ tpc' = [tpc EXCEPT ![t] = "write"]
    /\ UNCHANGED <<RECOVERY_STATUS, tret>>
    /\ ThreadStepUnchanged

\* Line 76, the store to the global.
ThreadWrite(t) ==
    /\ tpc[t] = "write"
    /\ RECOVERY_STATUS' = tprobe[t]
    /\ tpc' = [tpc EXCEPT ![t] = "return"]
    /\ UNCHANGED <<tprobe, tret>>
    /\ ThreadStepUnchanged

\* Line 78: the global is read again and returned.
ThreadReturn(t) ==
    /\ tpc[t] = "return"
    /\ tret' = [tret EXCEPT ![t] = RECOVERY_STATUS]
    /\ tpc' = [tpc EXCEPT ![t] = "idle"]
    /\ UNCHANGED <<RECOVERY_STATUS, tprobe>>
    /\ ThreadStepUnchanged

NextThreads ==
    \/ \E t \in Threads : ThreadTest(t)
    \/ \E t \in Threads : ThreadProbe(t)
    \/ \E t \in Threads : ThreadWrite(t)
    \/ \E t \in Threads : ThreadReturn(t)
    \/ ToggleBaseSystem

SpecThreads == Init /\ [][NextThreads]_vars

\* ----------------------------------------------------------------- claims

\* C1 (as claimed): a csr_decode call returns False (Disabled) exactly when
\* every flag of its required set has its bit set in the mask csr_dump read
\* during that call.
C1_DisabledIffMaskHasRequired ==
    call.op = "csr_decode" =>
        ((call.ret = "False") <=> (\A f \in call.os_sip : BitSet(call.sip_int, f)))

\* C2 (as claimed): after a decode of mask m, every flag of csr_values is
\* true exactly when the bit at its table position is set in m, whatever
\* was decoded before.
C2_TableEqualsMask ==
    call.op = "csr_decode" =>
        (\A f \in Flags : csr_values[f] = BitSet(call.sip_int, f))

\* C3: for an OS version at or below the legacy threshold (yosemite, the
\* lower of the two gates) patching_status calls neither amfi_status nor
\* csr_decode, and reports both results as False (the value that stands for
\* NotApplicable), whatever the store and the mask hold.  The threshold is
\* tight: every later release has its integrity result from csr_decode.
C3_LegacyNotApplicable ==
    /\ (step.check = "sip" /\ ps.os > yosemite) => step.called
    /\ (step.check = "amfi" /\ ps.os <= yosemite) =>
           (~step.called /\ ps.amfi_enabled = "False")
    /\ (step.check = "sip" /\ ps.os <= yosemite) =>
           (~step.called /\ ps.sip_enabled = "False")
    /\ (pc = "done" /\ ps.os <= yosemite) =>
           (ps.sip_enabled = "False" /\ ps.amfi_enabled = "False")

\* C3's case: a legacy release returned, with a required flag that the
\* table does not hold, so that csr_decode would have answered Enabled.
C3_Witness ==
    /\ pc = "done"
    /\ ps.os <= yosemite
    /\ \E f \in ps.os_sip : ~csr_values[f]

\* C4 (as claimed, for the calls that return): above the threshold the
\* code-integrity result is True or False: with OCLP-Settings present,
\* False iff it holds -allow_amfi; with it absent, False iff boot-args is
\* present and holds a skip marker; True in every other case.
C4_DefiniteResult ==
    (step.check = "amfi" /\ ps.os > catalina /\ step.exc = "none") =>
        LET settings == step.reads[1]
            bootargs == step.reads[Len(step.reads)]
            skip == /\ bootargs.kind = "str"
                    /\ (Contains(bootargs, amfi_1) \/ Contains(bootargs, amfi_2))
        IN  /\ ps.amfi_enabled \in {"True", "False"}
            /\ (Truthy(settings) /\ step.reads[2] = settings) =>
                   (ps.amfi_enabled = "False" <=> Contains(settings, allow_amfi))
            /\ ~Truthy(settings) => (ps.amfi_enabled = "False" <=> skip)

C6_SecureBootModel ==
    step.check = "sbm" =>
        LET h1 == step.reads[1]
            h2 == step.reads[Len(step.reads)]
        IN  /\ h1 = None => ps.sbm_enabled = "False"
            /\ (h1 = h2 /\ h1 \in sbm_values) => ps.sbm_enabled = "True"
            /\ (h1 = h2 /\ h1 # None /\ h1 \notin sbm_values) =>
                   ps.sbm_enabled = "False"

\* C6's case: an allow-listed model on a release at or below every gate.
C6_Witness ==
    /\ step.check = "sbm"
    /\ ps.os <= yosemite
    /\ step.reads = <<Str(<<"j137">>), Str(<<"j137">>)>>
    /\ ps.sbm_enabled = "True"

\* C7 (as claimed, the store not changing during the check): fdesetup is
\* run exactly when the OS version is above the threshold and
\* OCLP-Settings holds no -allow_fv; then the result is False iff the
\* output holds "FileVault is Off" and True otherwise; in the other cases
\* the result is False and fdesetup is not run.
C7_VolumeEncryption ==
    (step.check = "fv" /\ (Len(step.reads) = 2 => step.reads[1] = step.reads[2])) =>
        LET settings == IF step.reads = <<>> THEN None ELSE step.reads[1]
            applies == ps.os > catalina /\ ~Contains(settings, allow_fv)
        IN  /\ step.ran <=> applies
            /\ step.exc = "none"
            /\ applies => ps.fv_enabled = Py(~Contains(step.output, FileVaultOff))
            /\ ~applies => ps.fv_enabled = "False"

\* C8: every check_recovery call returns what the first call returned, and
\* the filesystem is probed at most once.
C8_SameAsFirstCall ==
    /\ call.op = "check_recovery" => call.ret = firstReturn
    /\ RECOVERY_STATUS # PyNone => RECOVERY_STATUS = firstReturn
    /\ probes <= 1

\* C8's case: a call answered from the cache after the path changed.
C8_Witness ==
    /\ call.op = "check_recovery"
    /\ ~call.probed
    /\ call.ret # Py(baseSystem)

\* C9 (as claimed): patching_status never raises, and the record it
\* returns holds True or False in each of its five fields.
C9_NeverRaises ==
    /\ pc # "raised"
    /\ pc = "done" =>
          /\ ps.sip_enabled \in {"True", "False"}
          /\ ps.sbm_enabled \in {"True", "False"}
          /\ ps.amfi_enabled \in {"True", "False"}
          /\ ps.fv_enabled \in {"True", "False"}
          /\ ps.dosdude_patched \in {"True", "False"}

\* C10 (as claimed): get_nvram and get_rom with decode set return None for
\* byte data that is not UTF-8.
C10_MalformedIsNone ==
    ( /\ call.op \in {"get_nvram", "get_rom"}
      /\ call.decode
      /\ call.stored.kind = "bytes"
      /\ ~ValidUtf8(StripNul(call.stored.data)) ) =>
        (call.out.exc = "none" /\ call.out.val = None)

\* C11 (as claimed): after any sequence of get_nvram and get_rom calls,
\* whether a call returned a value, returned None or failed during the
\* lookup, no registry entry remains open.
C11_NoHandleLeftOpen ==
    open_handles = 0

\* C12: where csr_get_active_config is unavailable, csr_decode works on the
\* mask 0 and returns what decoding 0 on the initial table returns, which is
\* True (Enabled) for every non-empty required set; no flag is ever set.
C12_UnavailableIsMaskZero ==
    (call.op = "csr_decode" /\ ~csr_available) =>
        /\ call.sip_int = 0
        /\ call.ret = csr_decode_ret(csr_set_flags(CsrInitial, 0), call.os_sip)
        /\ call.os_sip # {} => call.ret = "True"
        /\ csr_values = CsrInitial

\* C12's case: csr_decode with a non-empty required set has returned on a
\* system without csr_get_active_config.
C12_Witness ==
    /\ call.op = "csr_decode"
    /\ ~csr_available
    /\ call.os_sip # {}

\* C13 (as claimed): under every interleaving of the test, probe and store
\* steps of concurrent check_recovery calls, with the path changing while
\* they race, all calls return the same boolean.
C13_AllReturnSame ==
    \A t1, t2 \in Threads :
        (tret[t1] # PyNone /\ tret[t2] # PyNone) => tret[t1] = tret[t2]

\* C14: csr_values is monotonic: no step resets a flag to False; a False
\* returned by csr_decode for a required set means every flag of that set is
\* True in the table, and a csr_decode on a table where every flag of its
\* required set is already True returns False. So once csr_decode returned
\* False for a required set, every later csr_decode with that set does too.
C14_FlagsMonotonic ==
    [][ /\ \A f \in Flags : csr_values[f] => csr_values'[f]
        /\ (call.op = "csr_decode" /\ call.ret = "False") =>
               sip_needs_change(csr_values, call.os_sip)
        /\ call'.op = "csr_decode" =>
               (sip_needs_change(csr_values, call'.os_sip) =>
                    call'.ret = "False") ]_vars

\* C14's case: csr_decode returned False for a non-empty required set
\* although the mask of this call lacks one of its bits, the flag having
\* been set by an earlier call.
C14_Witness ==
    /\ call.op = "csr_decode"
    /\ call.os_sip # {}
    /\ call.ret = "False"
    /\ \E f \in call.os_sip : ~BitSet(call.sip_int, f)

====
